---- MODULE Spec2Model ----
(***************************************************************************)
(* Model of scripts/generate_tezza_v2.py: the 3D LUT generator.            *)
(*                                                                         *)
(* Real numbers (numpy float64 in the source) are modelled in fixed point: *)
(* the integer v stands for v / S with S = 10^8, two decimal digits finer  *)
(* than the 6 decimals write_cube prints.  Products and quotients are      *)
(* computed exactly on split operands and truncated toward zero, so that   *)
(* no intermediate value leaves the 32-bit integers of the model checker.  *)
(* Hues are held in micro-degrees (H = 10^6 per degree).                   *)
(***************************************************************************)
EXTENDS Integers, Sequences, FiniteSets, TLC

VARIABLES
    size,     \* LUT_SIZE: the grid size N handed to identity_lut
    presets,  \* the driver's preset table, as the sequence of its keys
    idx,      \* position of the driver's for loop in presets (1-based)
    pc,       \* position of the driver inside the current iteration
    step,     \* position inside the current generator / header
    lut,      \* the grid threaded through the current generator
    pos,      \* <<b, g, r>>: write_cube's three loop counters
    files,    \* the output directory: file stem -> NoFile or the lines written
    call,     \* a direct call of one library function: its arguments
    ret       \* ... and the value it returned (Pending before it ran)

vars == <<size, presets, idx, pc, step, lut, pos, files, call, ret>>

---------------------------------------------------------------------------
(* Bounds of the model.                                                    *)

\* largest grid size N explored (the script fixes LUT_SIZE = 33)
MaxSize == 3
\* longest sequence of preset generations explored by SpecAnyOrder
MaxRuns == 2
\* the library functions are called on the cells of identity_lut(TestSize)
TestSize == 3
\* longest list of control points handed to apply_curve
MaxPoints == 3

---------------------------------------------------------------------------
(* Fixed-point arithmetic.                                                 *)

K == 10 ^ 4
S == K * K
H == 10 ^ 6

\* the decimal literal m * 10^-d
Dec(m, d) == m * (10 ^ (8 - d))

Abs(a) == IF a < 0 THEN -a ELSE a
Max2(a, b) == IF a >= b THEN a ELSE b
Min2(a, b) == IF a <= b THEN a ELSE b

\* floor(a * b / S) for a, b >= 0
MulU(a, b) ==
    LET ah == a \div K
        al == a % K
        bh == b \div K
        bl == b % K
    IN  ah * bh + ((ah * bl + al * bh + ((al * bl) \div K)) \div K)

\* a * b on fixed-point operands, truncated toward zero
MulS(a, b) ==
    IF (a < 0) = (b < 0) THEN MulU(Abs(a), Abs(b)) ELSE -MulU(Abs(a), Abs(b))

RECURSIVE LongDiv(_, _, _, _)
LongDiv(rem, d, q, n) ==
    IF n = 0 THEN q
    ELSE LongDiv((rem * 10) % d, d, q * 10 + ((rem * 10) \div d), n - 1)

\* floor(a * S / d) for a >= 0, 0 < d <= 2 * S, a / d < 20
DivU(a, d) == LongDiv(a % d, d, a \div d, 8)

\* a / d on fixed-point operands, truncated toward zero
DivS(a, d) ==
    IF (a < 0) = (d < 0) THEN DivU(Abs(a), Abs(d)) ELSE -DivU(Abs(a), Abs(d))

\* acc * y^n <= x, cut short as soon as the product passes x
RECURSIVE PowLeq(_, _, _, _)
PowLeq(acc, y, n, x) ==
    IF n = 0 THEN acc <= x
    ELSE IF y >= S /\ acc > x THEN FALSE
    ELSE PowLeq(MulU(acc, y), y, n - 1, x)

\* the largest y in lo..hi with y^n <= x (y^n is monotone in y)
RECURSIVE RootSearch(_, _, _, _)
RootSearch(x, n, lo, hi) ==
    IF lo >= hi THEN lo
    ELSE LET mid == (lo + hi + 1) \div 2
         IN  IF PowLeq(S, mid, n, x)
             THEN RootSearch(x, n, mid, hi)
             ELSE RootSearch(x, n, lo, mid - 1)

\* x ** (1/n) for 0 <= x <= 2
Root(x, n) == RootSearch(x, n, 0, 2 * S)

RECURSIVE PowInt(_, _)
PowInt(y, n) == IF n = 0 THEN S ELSE MulS(PowInt(y, n - 1), y)

\* x ** 1.5, x ** 1.2 and x ** 2 for 0 <= x <= 1
Pow15(x) == MulS(x, Root(x, 2))
Pow12(x) == MulS(x, Root(x, 5))
Pow20(x) == MulS(x, x)

\* 2.0 ** ev, ev given in tenths of a stop (ev >= 0)
Pow2(ev10) == PowInt(Root(2 * S, 10), ev10)

PI == 314159265

\* Taylor series of sin and cos: term k+1 = -term k * a^2 / ((m+1)(m+2))
RECURSIVE Series(_, _, _, _)
Series(term, a2, m, n) ==
    IF n = 0 THEN 0
    ELSE term + Series(-(MulS(term, a2) \div ((m + 1) * (m + 2))), a2, m + 2, n - 1)

Cos(a) == Series(S, MulS(a, a), 0, 10)
Sin(a) == Series(a, MulS(a, a), 1, 10)

\* deg * pi / 180 for an integer number of degrees
Radians(deg) ==
    LET q == PI \div 180
        rm == PI % 180
        u == Abs(deg) * q + ((Abs(deg) * rm) \div 180)
    IN  IF deg < 0 THEN -u ELSE u

---------------------------------------------------------------------------
(* The grid.  A grid of size n maps every index <<b, g, r>> (blue outermost, *)
(* red innermost) to a cell <<R, G, B>>; channel c of the source is          *)
(* component c + 1 of the cell.                                              *)

Index(n) == (0 .. n - 1) \X (0 .. n - 1) \X (0 .. n - 1)

\* identity_lut divides by size - 1: ZeroDivisionError for the first cell of
\* a grid of size 1 (a grid of size 0 has no cell and nothing is divided)
identity_lut_raises(n) == Index(n) # {} /\ n - 1 = 0

\* (mutant) the cell built as [b, g, r] instead of [r, g, b]
identity_lut_bgr(n) ==
    [i \in Index(n) |->
        << (i[1] * S) \div (n - 1), (i[2] * S) \div (n - 1), (i[3] * S) \div (n - 1) >>]

identity_lut(n) ==
    [i \in Index(n) |->
        << (i[3] * S) \div (n - 1), (i[2] * S) \div (n - 1), (i[1] * S) \div (n - 1) >>]

clip(v) == Max2(0, Min2(S, v))
\* (mutant) the final np.clip of an operator left out
clip3_missing(c) == c

clip3(c) == << clip(c[1]), clip(c[2]), clip(c[3]) >>

\* amount / 100.0 for an integer amount
Percent(amount) == amount * (S \div 100)

\* 0.2126 * R + 0.7152 * G + 0.0722 * B
Luminance(c) ==
    MulS(Dec(2126, 4), c[1]) + MulS(Dec(7152, 4), c[2]) + MulS(Dec(722, 4), c[3])

\* a scalar added to the three channels
AddAll(c, d) == << c[1] + d, c[2] + d, c[3] + d >>

---------------------------------------------------------------------------
(* The tone curve.                                                         *)

RECURSIVE Insert(_, _)
Insert(s, p) ==
    IF s = << >> THEN << p >>
    ELSE IF p[1] < Head(s)[1] THEN << p >> \o s
    ELSE << Head(s) >> \o Insert(Tail(s), p)

\* sorted(points, key=lambda p: p[0]): stable
RECURSIVE sorted(_)
sorted(points) ==
    IF points = << >> THEN << >>
    ELSE Insert(sorted(SubSeq(points, 1, Len(points) - 1)), points[Len(points)])

\* (mutant) the two end values exchanged
interp_ends_swapped(x, pts) ==
    LET n == Len(pts)
        j == CHOOSE k \in 1 .. n :
                 /\ pts[k][1] <= x
                 /\ \A m \in (k + 1) .. n : pts[m][1] > x
    IN  IF x > pts[n][1] THEN pts[1][2]
        ELSE IF x < pts[1][1] THEN pts[n][2]
        ELSE IF j = n THEN pts[n][2]
        ELSE IF pts[j][1] = x THEN pts[j][2]
        ELSE MulS(DivS(pts[j + 1][2] - pts[j][2], pts[j + 1][1] - pts[j][1]),
                  x - pts[j][1]) + pts[j][2]

\* np.interp(x, xs, ys) on the sorted points pts
interp(x, pts) ==
    LET n == Len(pts)
        j == CHOOSE k \in 1 .. n :
                 /\ pts[k][1] <= x
                 /\ \A m \in (k + 1) .. n : pts[m][1] > x
    IN  IF x > pts[n][1] THEN pts[n][2]
        ELSE IF x < pts[1][1] THEN pts[1][2]
        ELSE IF j = n THEN pts[n][2]
        ELSE IF pts[j][1] = x THEN pts[j][2]
        ELSE MulS(DivS(pts[j + 1][2] - pts[j][2], pts[j + 1][1] - pts[j][1]),
                  x - pts[j][1]) + pts[j][2]

apply_curve(x, points) == interp(x, sorted(points))

\* lut[..., c] = apply_curve(lut[..., c], points), c counted from 1
curve_channel(l, c, points) ==
    LET pts == sorted(points)
    IN  [i \in DOMAIN l |-> [l[i] EXCEPT ![c] = interp(l[i][c], pts)]]

---------------------------------------------------------------------------
(* The global tone operators.                                              *)

\* ev in tenths of a stop
adjust_exposure(l, ev) ==
    LET factor == Pow2(ev)
    IN  [i \in DOMAIN l |->
            clip3(<< MulS(l[i][1], factor), MulS(l[i][2], factor), MulS(l[i][3], factor) >>)]

\* (mutant) the scale factor t * k instead of 1 + t * k
adjust_contrast_no_unit(l, amount) ==
    LET t == Percent(amount)
        mid == Dec(5, 1)
        k == IF t > 0 THEN MulS(t, Dec(8, 1)) ELSE MulS(t, Dec(5, 1))
        F(v) == mid + MulS(v - mid, k)
    IN  [i \in DOMAIN l |-> clip3(<< F(l[i][1]), F(l[i][2]), F(l[i][3]) >>)]

adjust_contrast(l, amount) ==
    LET t == Percent(amount)
        mid == Dec(5, 1)
        k == IF t > 0 THEN S + MulS(t, Dec(8, 1)) ELSE S + MulS(t, Dec(5, 1))
        F(v) == mid + MulS(v - mid, k)
    IN  [i \in DOMAIN l |-> clip3(<< F(l[i][1]), F(l[i][2]), F(l[i][3]) >>)]

\* (mutant) the mean of the channels taken for the luminance
Saturate_mean(c, t) ==
    LET lum == (c[1] + c[2] + c[3]) \div 3
    IN  << lum + MulS(c[1] - lum, t), lum + MulS(c[2] - lum, t), lum + MulS(c[3] - lum, t) >>

\* luminance + (lut[..., c] - luminance) * t on the three channels, unclipped
Saturate(c, t) ==
    LET lum == Luminance(c)
    IN  << lum + MulS(c[1] - lum, t), lum + MulS(c[2] - lum, t), lum + MulS(c[3] - lum, t) >>

adjust_saturation(l, amount) ==
    [i \in DOMAIN l |-> clip3(Saturate(l[i], S + Percent(amount)))]

\* boost of one channel value v: less saturated values get more
Boost(v, lum, t) == S + MulS(t, S - clip(Abs(v - lum) * 3))

\* luminance + (lut[..., c] - luminance) * boost on the three channels, unclipped
Vibrate(c, lum, t) ==
    << lum + MulS(c[1] - lum, Boost(c[1], lum, t)),
       lum + MulS(c[2] - lum, Boost(c[2], lum, t)),
       lum + MulS(c[3] - lum, Boost(c[3], lum, t)) >>

adjust_vibrance(l, amount) ==
    [i \in DOMAIN l |-> clip3(Vibrate(l[i], Luminance(l[i]), Percent(amount)))]

adjust_highlights(l, amount) ==
    LET t == Percent(amount)
        F(c) == LET mask == Pow15(clip((Luminance(c) - Dec(5, 1)) * 2))
                IN  AddAll(c, MulS(MulS(mask, t), Dec(3, 1)))
    IN  [i \in DOMAIN l |-> clip3(F(l[i]))]

adjust_shadows(l, amount) ==
    LET t == Percent(amount)
        F(c) == LET mask == Pow15(clip(S - Luminance(c) * 2))
                IN  AddAll(c, MulS(MulS(mask, t), Dec(3, 1)))
    IN  [i \in DOMAIN l |-> clip3(F(l[i]))]

adjust_whites(l, amount) ==
    LET t == Percent(amount)
        F(c) == LET mask == Pow20(clip(MulS(Luminance(c) - Dec(7, 1), Dec(33, 1))))
                IN  AddAll(c, MulS(MulS(mask, t), Dec(25, 2)))
    IN  [i \in DOMAIN l |-> clip3(F(l[i]))]

adjust_blacks(l, amount) ==
    LET t == Percent(amount)
        F(c) == LET mask == Pow20(clip(S - MulS(Luminance(c), Dec(33, 1))))
                IN  AddAll(c, MulS(MulS(mask, t), Dec(2, 1)))
    IN  [i \in DOMAIN l |-> clip3(F(l[i]))]

adjust_temperature(l, amount) ==
    LET t == Percent(amount)
    IN  [i \in DOMAIN l |->
            clip3(<< l[i][1] + MulS(t, Dec(6, 2)),
                     l[i][2] + MulS(t, Dec(15, 3)),
                     l[i][3] - MulS(t, Dec(6, 2)) >>)]

adjust_tint(l, amount) ==
    LET t == Percent(amount)
    IN  [i \in DOMAIN l |->
            clip3(<< l[i][1] + MulS(t, Dec(2, 2)),
                     l[i][2] - MulS(t, Dec(4, 2)),
                     l[i][3] + MulS(t, Dec(2, 2)) >>)]

\* amount is a fixed-point number in 0..1
lift_blacks(l, amount) ==
    LET F(v) == amount + MulS(v, S - amount)
    IN  [i \in DOMAIN l |-> clip3(<< F(l[i][1]), F(l[i][2]), F(l[i][3]) >>)]

---------------------------------------------------------------------------
(* Hue-range selective adjustment.                                         *)

\* 60 * x degrees, in micro-degrees, for a fixed-point x in 0..6
Deg60(x) == (x * 3) \div 5

\* the hue of a cell in micro-degrees: the three masked assignments of the
\* source run in the order r, g, b, so the last mask that holds decides
Hue(c) ==
    LET cmax == Max2(Max2(c[1], c[2]), c[3])
        cmin == Min2(Min2(c[1], c[2]), c[3])
        delta == cmax - cmin
        chroma == delta > Dec(1, 3)
        raw == IF cmax = c[3] /\ chroma
                   THEN Deg60(DivS(c[1] - c[2], delta) + 4 * S)
               ELSE IF cmax = c[2] /\ chroma
                   THEN Deg60(DivS(c[3] - c[1], delta) + 2 * S)
               ELSE IF cmax = c[1] /\ chroma
                   THEN Deg60(DivS(c[2] - c[3], delta) % (6 * S))
               ELSE 0
    IN  raw % (360 * H)

Saturation(c) ==
    LET cmax == Max2(Max2(c[1], c[2]), c[3])
        cmin == Min2(Min2(c[1], c[2]), c[3])
    IN  IF cmax > Dec(1, 3) THEN DivS(cmax - cmin, cmax) ELSE 0

\* (mutant) the wrapping range tested with "and" instead of "or"
HueStrength_and(hue, h_min, h_max) ==
    IF h_min < h_max
    THEN LET center == ((h_min + h_max) * H) \div 2
             width == ((h_max - h_min) * H) \div 2
             dist == Abs(hue - center)
             num == dist - ((width * 6) \div 10)
             den == (width * 4) \div 10
         IN  IF num <= 0 THEN S
             ELSE IF num >= den THEN 0
             ELSE S - DivU(num, den)
    ELSE IF hue >= h_min * H /\ hue <= h_max * H THEN S ELSE 0

\* the selection strength of a hue before the saturation weighting
HueStrength(hue, h_min, h_max) ==
    IF h_min < h_max
    THEN LET center == ((h_min + h_max) * H) \div 2
             width == ((h_max - h_min) * H) \div 2
             dist == Abs(hue - center)
             num == dist - ((width * 6) \div 10)
             den == (width * 4) \div 10
         IN  \* clip(1.0 - num / den, 0, 1)
             IF num <= 0 THEN S
             ELSE IF num >= den THEN 0
             ELSE S - DivU(num, den)
    ELSE IF hue >= h_min * H \/ hue <= h_max * H THEN S ELSE 0

\* strength * clip(saturation * 3, 0, 1)
Strength(c, h_min, h_max) ==
    MulS(HueStrength(Hue(c), h_min, h_max), clip(Saturation(c) * 3))

\* if sat_shift != 0: the channels rebuilt around the luminance
HslSaturate(c, strength, sat_shift) ==
    LET saturation == Saturation(c)
        luminance == Luminance(c)
        new_sat == clip(MulS(saturation, S + sat_shift))
        sat_factor ==
            MulS(strength,
                 IF saturation > Dec(1, 3) THEN DivS(new_sat, saturation) ELSE S)
            + MulS(S - strength, S)
        F(v) == luminance + MulS(v - luminance, sat_factor)
    IN  IF sat_shift # 0 THEN << F(c[1]), F(c[2]), F(c[3]) >> ELSE c

\* if lum_shift != 0
HslLighten(c, strength, lum_shift) ==
    IF lum_shift # 0
    THEN AddAll(c, MulS(MulS(strength, lum_shift), Dec(15, 2)))
    ELSE c

\* the simplified rotation of the deviations r_c, g_c, b_c from the luminance
HslRotate(c, strength, r_c, g_c, b_c, cos_a, sin_a) ==
    LET nr == MulS(r_c, cos_a) + MulS(MulS(g_c, sin_a), Dec(5, 1))
        ng == MulS(g_c, cos_a) - MulS(MulS(r_c, sin_a), Dec(3, 1))
                  + MulS(MulS(b_c, sin_a), Dec(3, 1))
        nb == MulS(b_c, cos_a) - MulS(MulS(g_c, sin_a), Dec(5, 1))
    IN  << c[1] + MulS(MulS(strength, nr - r_c), Dec(5, 1)),
           c[2] + MulS(MulS(strength, ng - g_c), Dec(5, 1)),
           c[3] + MulS(MulS(strength, nb - b_c), Dec(5, 1)) >>

\* if hue_shift != 0
HslShiftHue(c, strength, luminance, hue_shift, cos_a, sin_a) ==
    IF hue_shift # 0
    THEN HslRotate(c, strength, c[1] - luminance, c[2] - luminance, c[3] - luminance,
                   cos_a, sin_a)
    ELSE c

HslFinish(c, strength, hue_shift, cos_a, sin_a) ==
    clip3(HslShiftHue(c, strength, Luminance(c), hue_shift, cos_a, sin_a))

HslCell(c, strength, hue_shift, sat_shift, lum_shift, cos_a, sin_a) ==
    HslFinish(HslLighten(HslSaturate(c, strength, sat_shift), strength, lum_shift),
              strength, hue_shift, cos_a, sin_a)

\* target_hue_range and hue_shift in whole degrees, sat_shift and lum_shift
\* fixed-point numbers in -1..1
hsl_adjust(l, target_hue_range, hue_shift, sat_shift, lum_shift) ==
    LET angle == Radians(hue_shift)
    IN  [i \in DOMAIN l |->
            HslCell(l[i], Strength(l[i], target_hue_range[1], target_hue_range[2]),
                    hue_shift, sat_shift, lum_shift, Cos(angle), Sin(angle))]

---------------------------------------------------------------------------
(* Split toning.                                                           *)

split_tone(l, shadow_rgb, highlight_rgb) ==
    LET F(c) ==
            LET luminance == Luminance(c)
                shadow_mask == Pow12(clip(S - luminance * 2))
                highlight_mask == Pow12(clip((luminance - Dec(5, 1)) * 2))
                G(k) == c[k]
                        + MulS(MulS(shadow_mask, shadow_rgb[k] - Dec(5, 1)), Dec(15, 2))
                        + MulS(MulS(highlight_mask, highlight_rgb[k] - Dec(5, 1)), Dec(15, 2))
            IN  << G(1), G(2), G(3) >>
    IN  [i \in DOMAIN l |-> clip3(F(l[i]))]

---------------------------------------------------------------------------
(* The presets.  A generator is the sequence of operator calls it makes on *)
(* the grid after lut = identity_lut(LUT_SIZE), in program order; the      *)
(* closing loop "for c in range(3): lut[..., c] = apply_curve(...)" is     *)
(* three calls.                                                            *)

Op(name, args) == [op |-> name, a |-> args]

\* for c in range(3): lut[..., c] = apply_curve(lut[..., c], points)
CurveLoop(points) ==
    << Op("apply_curve", << 1, points >>),
       Op("apply_curve", << 2, points >>),
       Op("apply_curve", << 3, points >>) >>

generate_vintage ==
    << Op("adjust_exposure", << 5 >>),
       Op("adjust_contrast", << -20 >>),
       Op("adjust_shadows", << 40 >>),
       Op("adjust_temperature", << 12 >>),
       Op("adjust_tint", << 8 >>),
       Op("lift_blacks", << Dec(6, 2) >>),
       Op("hsl_adjust", << << 15, 45 >>, 0, Dec(-10, 2), Dec(20, 2) >>),
       Op("split_tone", << << Dec(55, 2), Dec(48, 2), Dec(42, 2) >>,
                           << Dec(55, 2), Dec(52, 2), Dec(45, 2) >> >>) >>
    \o CurveLoop(<< << 0, Dec(5, 2) >>, << Dec(15, 2), Dec(18, 2) >>,
                    << Dec(5, 1), Dec(52, 2) >>, << Dec(85, 2), Dec(87, 2) >>,
                    << S, Dec(98, 2) >> >>)

generate_mood ==
    << Op("adjust_contrast", << 25 >>),
       Op("adjust_highlights", << -50 >>),
       Op("adjust_whites", << -15 >>),
       Op("adjust_blacks", << -10 >>),
       Op("adjust_saturation", << -20 >>),
       Op("hsl_adjust", << << 75, 165 >>, 0, Dec(-80, 2), 0 >>),
       Op("hsl_adjust", << << 180, 260 >>, 0, Dec(-80, 2), 0 >>),
       Op("split_tone", << << Dec(45, 2), Dec(52, 2), Dec(55, 2) >>,
                           << Dec(52, 2), Dec(50, 2), Dec(48, 2) >> >>) >>
    \o CurveLoop(<< << 0, 0 >>, << Dec(20, 2), Dec(15, 2) >>,
                    << Dec(40, 2), Dec(38, 2) >>, << Dec(60, 2), Dec(63, 2) >>,
                    << Dec(80, 2), Dec(82, 2) >>, << S, Dec(95, 2) >> >>)

generate_lush ==
    << Op("adjust_temperature", << 15 >>),
       Op("adjust_vibrance", << 20 >>),
       Op("adjust_shadows", << 25 >>),
       Op("hsl_adjust", << << 200, 260 >>, -25, 0, Dec(-10, 2) >>),
       Op("hsl_adjust", << << 40, 70 >>, -15, 0, 0 >>),
       Op("hsl_adjust", << << 15, 40 >>, 0, Dec(10, 2), Dec(10, 2) >>),
       Op("split_tone", << << Dec(52, 2), Dec(50, 2), Dec(45, 2) >>,
                           << Dec(55, 2), Dec(52, 2), Dec(47, 2) >> >>) >>
    \o CurveLoop(<< << 0, Dec(2, 2) >>, << Dec(25, 2), Dec(22, 2) >>,
                    << Dec(50, 2), Dec(52, 2) >>, << Dec(75, 2), Dec(78, 2) >>,
                    << S, S >> >>)

generate_dream ==
    << Op("adjust_exposure", << 7 >>),
       Op("adjust_highlights", << -20 >>),
       Op("adjust_shadows", << 30 >>),
       Op("adjust_contrast", << -30 >>),
       Op("adjust_saturation", << -10 >>),
       Op("adjust_tint", << 10 >>),
       Op("lift_blacks", << Dec(8, 2) >>),
       Op("hsl_adjust", << << 300, 360 >>, 0, Dec(15, 2), Dec(5, 2) >>),
       Op("hsl_adjust", << << 0, 20 >>, 0, Dec(10, 2), Dec(5, 2) >>),
       Op("split_tone", << << Dec(52, 2), Dec(48, 2), Dec(55, 2) >>,
                           << Dec(54, 2), Dec(52, 2), Dec(50, 2) >> >>) >>
    \o CurveLoop(<< << 0, Dec(7, 2) >>, << Dec(20, 2), Dec(22, 2) >>,
                    << Dec(50, 2), Dec(53, 2) >>, << Dec(80, 2), Dec(82, 2) >>,
                    << S, Dec(95, 2) >> >>)

generate_golden ==
    << Op("adjust_exposure", << 3 >>),
       Op("adjust_temperature", << 18 >>),
       Op("adjust_tint", << 5 >>),
       Op("adjust_shadows", << 20 >>),
       Op("adjust_highlights", << -30 >>),
       Op("adjust_vibrance", << 15 >>),
       Op("hsl_adjust", << << 15, 45 >>, 0, Dec(15, 2), Dec(15, 2) >>),
       Op("hsl_adjust", << << 40, 70 >>, -10, Dec(10, 2), 0 >>),
       Op("split_tone", << << Dec(55, 2), Dec(50, 2), Dec(42, 2) >>,
                           << Dec(56, 2), Dec(53, 2), Dec(45, 2) >> >>) >>
    \o CurveLoop(<< << 0, Dec(3, 2) >>, << Dec(25, 2), Dec(24, 2) >>,
                    << Dec(50, 2), Dec(53, 2) >>, << Dec(75, 2), Dec(78, 2) >>,
                    << S, Dec(97, 2) >> >>)

\* the keys of the driver's preset table, in the order the dict lists them
MainPresets == << "ft_vintage", "ft_mood", "ft_lush", "ft_dream", "ft_golden" >>

\* "ft_identity" stands for a table entry whose generator is identity_lut(LUT_SIZE)
\* alone, with every operator skipped
MainStems == { MainPresets[k] : k \in 1 .. Len(MainPresets) }
Stems == MainStems \cup { "ft_identity" }

Title(stem) ==
    CASE stem = "ft_vintage" -> "Vintage"
      [] stem = "ft_mood" -> "Mood"
      [] stem = "ft_lush" -> "Lush"
      [] stem = "ft_dream" -> "Dream"
      [] stem = "ft_golden" -> "Golden Hour"
      [] OTHER -> "Identity"

\* gen_func of a table entry: the operator calls made after identity_lut
Generator(stem) ==
    CASE stem = "ft_vintage" -> generate_vintage
      [] stem = "ft_mood" -> generate_mood
      [] stem = "ft_lush" -> generate_lush
      [] stem = "ft_dream" -> generate_dream
      [] stem = "ft_golden" -> generate_golden
      [] OTHER -> << >>

\* one operator call of a generator, applied to the grid l
Apply(st, l) ==
    CASE st.op = "adjust_exposure" -> adjust_exposure(l, st.a[1])
      [] st.op = "adjust_contrast" -> adjust_contrast(l, st.a[1])
      [] st.op = "adjust_saturation" -> adjust_saturation(l, st.a[1])
      [] st.op = "adjust_vibrance" -> adjust_vibrance(l, st.a[1])
      [] st.op = "adjust_highlights" -> adjust_highlights(l, st.a[1])
      [] st.op = "adjust_shadows" -> adjust_shadows(l, st.a[1])
      [] st.op = "adjust_whites" -> adjust_whites(l, st.a[1])
      [] st.op = "adjust_blacks" -> adjust_blacks(l, st.a[1])
      [] st.op = "adjust_temperature" -> adjust_temperature(l, st.a[1])
      [] st.op = "adjust_tint" -> adjust_tint(l, st.a[1])
      [] st.op = "lift_blacks" -> lift_blacks(l, st.a[1])
      [] st.op = "hsl_adjust" -> hsl_adjust(l, st.a[1], st.a[2], st.a[3], st.a[4])
      [] st.op = "split_tone" -> split_tone(l, st.a[1], st.a[2])
      [] st.op = "apply_curve" -> curve_channel(l, st.a[1], st.a[2])

---------------------------------------------------------------------------
(* write_cube.  A file is the sequence of the lines written to it; a data  *)
(* line is the triple of its three numbers in millionths, as "%.6f" prints *)
(* them.                                                                   *)

\* f'{v:.6f}': v rounded to 6 decimals, in millionths
Format6(v) == IF v >= 0 THEN (v + 50) \div 100 ELSE -((50 - v) \div 100)

\* lut.shape[0]
Shape(l) ==
    CHOOSE n \in 0 .. Cardinality(DOMAIN l) : n * n * n = Cardinality(DOMAIN l)

HeaderLine(k, n, title) ==
    CASE k = 1 -> << "TITLE", title >>
      [] k = 2 -> << "LUT_3D_SIZE", n >>
      [] k = 3 -> << "DOMAIN_MIN 0.0 0.0 0.0" >>
      [] k = 4 -> << "DOMAIN_MAX 1.0 1.0 1.0" >>
      [] k = 5 -> << "" >>

HeaderLen == Len(<< "TITLE", "LUT_3D_SIZE", "DOMAIN_MIN", "DOMAIN_MAX", "" >>)

\* f'{rgb[0]:.6f} {rgb[1]:.6f} {rgb[2]:.6f}\n'
DataLine(rgb) == << Format6(rgb[1]), Format6(rgb[2]), Format6(rgb[3]) >>

\* the loop nest "for b: for g: for r:" has a next iteration after p
HasNext(p, n) == p[3] + 1 < n \/ p[2] + 1 < n \/ p[1] + 1 < n

\* (mutant) the loop nest with blue innermost
NextPos_blue_inner(p, n) ==
    IF p[1] + 1 < n THEN << p[1] + 1, p[2], p[3] >>
    ELSE IF p[2] + 1 < n THEN << 0, p[2] + 1, p[3] >>
    ELSE << 0, 0, p[3] + 1 >>

\* ... and that iteration
NextPos(p, n) ==
    IF p[3] + 1 < n THEN << p[1], p[2], p[3] + 1 >>
    ELSE IF p[2] + 1 < n THEN << p[1], p[2] + 1, 0 >>
    ELSE << p[1] + 1, 0, 0 >>

NoFile == [exists |-> FALSE, lines |-> << >>]
\* open(filepath, 'w'): created or truncated
EmptyFile == [exists |-> TRUE, lines |-> << >>]
Append1(f, line) == [f EXCEPT !.lines = Append(@, line)]

---------------------------------------------------------------------------
(* The driver: for filename, (title, gen_func) in presets.items(): ...     *)

NoGrid == << >>
NoCall ==
    [fn |-> "", lut |-> NoGrid, amount |-> 0, range |-> << 0, 0 >>,
     hue_shift |-> 0, sat_shift |-> 0, lum_shift |-> 0, x |-> 0, points |-> << >>]

Sizes == 0 .. MaxSize

InitDriver(n, table) ==
    /\ size = n
    /\ presets = table
    /\ idx = 1
    /\ pc = "loop"
    /\ step = 0
    /\ lut = NoGrid
    /\ pos = << 0, 0, 0 >>
    /\ files = [s \in Stems |-> NoFile]
    /\ call = NoCall
    /\ ret = NoGrid

\* the script as it is run: the five presets, in the table's order
Init == \E n \in Sizes : InitDriver(n, MainPresets)

Stem == presets[idx]

\* (mutant) the grid of the previous preset reused instead of a fresh one
CallGenerator_reuses_grid ==
    /\ pc = "loop"
    /\ idx <= Len(presets)
    /\ IF identity_lut_raises(size)
       THEN /\ pc' = "failed"
            /\ UNCHANGED << lut, step >>
       ELSE /\ lut' = IF idx > 1 THEN lut ELSE identity_lut(size)
            /\ pc' = "gen"
            /\ step' = 1
    /\ UNCHANGED << size, presets, idx, pos, files, call, ret >>

\* lut = gen_func(), up to the return of identity_lut(LUT_SIZE); the
\* exception of identity_lut is caught nowhere and ends the run
CallGenerator ==
    /\ pc = "loop"
    /\ idx <= Len(presets)
    /\ IF identity_lut_raises(size)
       THEN /\ pc' = "failed"
            /\ UNCHANGED << lut, step >>
       ELSE /\ lut' = identity_lut(size)
            /\ pc' = "gen"
            /\ step' = 1
    /\ UNCHANGED << size, presets, idx, pos, files, call, ret >>

\* the next operator call of the generator
ApplyOperator ==
    /\ pc = "gen"
    /\ step <= Len(Generator(Stem))
    /\ lut' = Apply(Generator(Stem)[step], lut)
    /\ step' = step + 1
    /\ UNCHANGED << size, presets, idx, pc, pos, files, call, ret >>

\* return lut, and write_cube is entered
ReturnGrid ==
    /\ pc = "gen"
    /\ step > Len(Generator(Stem))
    /\ pc' = "open"
    /\ UNCHANGED << size, presets, idx, step, lut, pos, files, call, ret >>

\* with open(filepath, 'w') as f
OpenFile ==
    /\ pc = "open"
    /\ files' = [files EXCEPT ![Stem] = EmptyFile]
    /\ pc' = "header"
    /\ step' = 1
    /\ UNCHANGED << size, presets, idx, lut, pos, call, ret >>

\* the five f.write calls of the header, one at a time
WriteHeader ==
    /\ pc = "header"
    /\ files' = [files EXCEPT ![Stem] = Append1(@, HeaderLine(step, Shape(lut), Title(Stem)))]
    /\ IF step < HeaderLen
       THEN /\ step' = step + 1
            /\ UNCHANGED << pc, pos >>
       ELSE /\ pc' = IF Shape(lut) > 0 THEN "data" ELSE "close"
            /\ pos' = << 0, 0, 0 >>
            /\ UNCHANGED step
    /\ UNCHANGED << size, presets, idx, lut, call, ret >>

\* one iteration of the loop nest: rgb = lut[b, g, r]; f.write(...)
WriteData ==
    /\ pc = "data"
    /\ files' = [files EXCEPT ![Stem] = Append1(@, DataLine(lut[pos]))]
    /\ IF HasNext(pos, Shape(lut))
       THEN /\ pos' = NextPos(pos, Shape(lut))
            /\ UNCHANGED pc
       ELSE /\ pc' = "close"
            /\ UNCHANGED pos
    /\ UNCHANGED << size, presets, idx, step, lut, call, ret >>

\* the with block is left and the loop goes on to the next table entry
CloseFile ==
    /\ pc = "close"
    /\ idx' = idx + 1
    /\ pc' = "loop"
    /\ UNCHANGED << size, presets, step, lut, pos, files, call, ret >>

\* open, f.write or the closing flush raises OSError: nothing catches it, the
\* file keeps what was written and the run ends
IOError ==
    /\ pc \in { "open", "header", "data", "close" }
    /\ pc' = "failed"
    /\ UNCHANGED << size, presets, idx, step, lut, pos, files, call, ret >>

\* the table is exhausted: print('Done! ...')
Finish ==
    /\ pc = "loop"
    /\ idx > Len(presets)
    /\ pc' = "done"
    /\ UNCHANGED << size, presets, idx, step, lut, pos, files, call, ret >>

Next ==
    \/ CallGenerator
    \/ ApplyOperator
    \/ ReturnGrid
    \/ OpenFile
    \/ WriteHeader
    \/ WriteData
    \/ CloseFile
    \/ IOError
    \/ Finish

Spec == Init /\ [][Next]_vars

---------------------------------------------------------------------------
(* The generators called in any order, any number of times: the driver's   *)
(* loop over an arbitrary table of at most MaxRuns entries.                *)

RECURSIVE Tables(_, _)
Tables(elems, n) ==
    IF n = 0 THEN { << >> }
    ELSE Tables(elems, n - 1) \cup
         { Append(t, e) : t \in { u \in Tables(elems, n - 1) : Len(u) = n - 1 },
                          e \in elems }

\* the sequences are run on the smallest grid that identity_lut can build:
\* no preset reads LUT_SIZE but through identity_lut
OrderSizes == { 2 }

InitAnyOrder ==
    \E n \in OrderSizes :
        \E table \in Tables(MainStems, MaxRuns) \ { << >> } : InitDriver(n, table)

SpecAnyOrder == InitAnyOrder /\ [][Next]_vars

---------------------------------------------------------------------------
(* identity_lut(N) encoded with every operator skipped: the driver's loop  *)
(* over the single entry whose generator is identity_lut alone.            *)

InitIdentity == \E n \in Sizes : InitDriver(n, << "ft_identity" >>)

NextIdentity ==
    \/ CallGenerator
    \/ ReturnGrid
    \/ OpenFile
    \/ WriteHeader
    \/ WriteData
    \/ CloseFile
    \/ IOError
    \/ Finish

SpecIdentity == InitIdentity /\ [][NextIdentity]_vars

---------------------------------------------------------------------------
(* The library functions called directly, on a grid of one cell.           *)

OneCell(c) == [i \in { << 0, 0, 0 >> } |-> c]
TheCell(l) == l[<< 0, 0, 0 >>]

\* synthetic cells of hue 355, 5 and 180 degrees, at saturation 1 and 0.5
HueCells ==
    { << S, 0, S \div 12 >>, << S, S \div 12, 0 >>, << 0, S, S >>,
      << S, S \div 2, (S \div 2) + (S \div 24) >>,
      << S, (S \div 2) + (S \div 24), S \div 2 >>,
      << S \div 2, S, S >> }

\* cells with every channel strictly inside the range
PastelCells ==
    { << Dec(5, 1), Dec(4, 1), Dec(3, 1) >>, << Dec(3, 1), Dec(6, 1), Dec(4, 1) >>,
      << Dec(62, 2), Dec(58, 2), Dec(66, 2) >> }

TestCells ==
    { identity_lut(TestSize)[i] : i \in Index(TestSize) } \cup HueCells \cup PastelCells

Amounts == { -100, -50, 0, 20, 100 }

AmountFns ==
    { "adjust_contrast", "adjust_saturation", "adjust_vibrance",
      "adjust_temperature", "adjust_tint", "adjust_highlights",
      "adjust_shadows", "adjust_whites", "adjust_blacks" }

AmountCalls ==
    { [NoCall EXCEPT !.fn = f, !.lut = OneCell(c), !.amount = a] :
        f \in AmountFns, c \in TestCells, a \in Amounts }

HueRanges == { << 350, 10 >>, << 300, 60 >>, << 15, 45 >> }

HslCalls ==
    { [NoCall EXCEPT !.fn = "hsl_adjust", !.lut = OneCell(c), !.range = rg,
                     !.hue_shift = sh[1], !.sat_shift = sh[2], !.lum_shift = sh[3]] :
        c \in TestCells, rg \in HueRanges,
        sh \in { 0, -25 } \X { 0, Dec(15, 2), Dec(-80, 2) } \X { 0, Dec(20, 2), Dec(-10, 2) } }

CurvePoints ==
    { << Dec(2, 1), Dec(1, 1) >>, << Dec(5, 1), Dec(6, 1) >>,
      << Dec(8, 1), Dec(9, 1) >>, << Dec(5, 1), Dec(3, 1) >> }

CurveInputs ==
    { 0, Dec(1, 1), Dec(2, 1), Dec(35, 2), Dec(5, 1), Dec(65, 2), Dec(8, 1), Dec(9, 1), S }

CurveCalls ==
    { [NoCall EXCEPT !.fn = "apply_curve", !.x = v, !.points = pts] :
        v \in CurveInputs, pts \in Tables(CurvePoints, MaxPoints) \ { << >> } }

InitCalls ==
    /\ call \in AmountCalls \cup HslCalls \cup CurveCalls
    /\ pc = "call"
    /\ ret = NoGrid
    /\ size = 0
    /\ presets = << >>
    /\ idx = 1
    /\ step = 0
    /\ lut = NoGrid
    /\ pos = << 0, 0, 0 >>
    /\ files = [s \in Stems |-> NoFile]

\* the called function returns value
Returns(fn, value) ==
    /\ pc = "call"
    /\ call.fn = fn
    /\ ret' = value
    /\ pc' = "returned"
    /\ UNCHANGED << size, presets, idx, step, lut, pos, files, call >>

Call_adjust_contrast == Returns("adjust_contrast", adjust_contrast(call.lut, call.amount))
Call_adjust_saturation == Returns("adjust_saturation", adjust_saturation(call.lut, call.amount))
Call_adjust_vibrance == Returns("adjust_vibrance", adjust_vibrance(call.lut, call.amount))
Call_adjust_highlights == Returns("adjust_highlights", adjust_highlights(call.lut, call.amount))
Call_adjust_shadows == Returns("adjust_shadows", adjust_shadows(call.lut, call.amount))
Call_adjust_whites == Returns("adjust_whites", adjust_whites(call.lut, call.amount))
Call_adjust_blacks == Returns("adjust_blacks", adjust_blacks(call.lut, call.amount))
Call_adjust_temperature == Returns("adjust_temperature", adjust_temperature(call.lut, call.amount))
Call_adjust_tint == Returns("adjust_tint", adjust_tint(call.lut, call.amount))
Call_hsl_adjust ==
    Returns("hsl_adjust",
            hsl_adjust(call.lut, call.range, call.hue_shift, call.sat_shift, call.lum_shift))
Call_apply_curve == Returns("apply_curve", apply_curve(call.x, call.points))

NextCalls ==
    \/ Call_adjust_contrast
    \/ Call_adjust_saturation
    \/ Call_adjust_vibrance
    \/ Call_adjust_highlights
    \/ Call_adjust_shadows
    \/ Call_adjust_whites
    \/ Call_adjust_blacks
    \/ Call_adjust_temperature
    \/ Call_adjust_tint
    \/ Call_hsl_adjust
    \/ Call_apply_curve

SpecCalls == InitCalls /\ [][NextCalls]_vars

---------------------------------------------------------------------------
(* Claims.                                                                 *)

InUnit(l) == \A i \in DOMAIN l : \A k \in 1 .. 3 : 0 <= l[i][k] /\ l[i][k] <= S

\* C1 - Clamping invariant: in each of the five presets, starting from
\* identity_lut(N), after every operator call of the preset (the three
\* unclipped apply_curve calls included) every channel of every cell of the
\* grid lies in [0, 1]; so does every cell of the grid the preset returns.
C1_Clamping == InUnit(lut)

\* a preset has returned a grid on which the clip was active: the cell of
\* index (0, 0, N-1) holds a channel at the upper end of the range
C1_Witness ==
    /\ pc = "open"
    /\ size >= 2
    /\ Stem = "ft_lush"
    /\ lut # identity_lut(size)
    /\ lut[<< 0, 0, size - 1 >>][1] = S

ExpectedHeader(n, title) ==
    << << "TITLE", title >>, << "LUT_3D_SIZE", n >>, << "DOMAIN_MIN 0.0 0.0 0.0" >>,
       << "DOMAIN_MAX 1.0 1.0 1.0" >>, << "" >> >>

\* data line k (from 0) holds the cell of index (k div N^2, (k div N) mod N, k mod N)
ExpectedData(l, n) ==
    [k \in 1 .. n * n * n |->
        LET c == l[<< (k - 1) \div (n * n), ((k - 1) \div n) % n, (k - 1) % n >>]
        IN  << Format6(c[1]), Format6(c[2]), Format6(c[3]) >>]

ExpectedFile(l, n, title) == ExpectedHeader(n, title) \o ExpectedData(l, n)

IsPrefix(s, t) == Len(s) <= Len(t) /\ s = SubSeq(t, 1, Len(s))

\* C2 - write_cube writes the TITLE line, the LUT_3D_SIZE N line, the
\* DOMAIN_MIN line, the DOMAIN_MAX line, one blank line and then exactly N^3
\* data lines and nothing else; data line k (from 0) holds the cell of index
\* (b, g, r) = (k div N^2, (k div N) mod N, k mod N): red fastest, blue
\* slowest, no cell written twice or skipped.
C2_CubeLayout ==
    /\ pc \in { "header", "data" } =>
           IsPrefix(files[Stem].lines, ExpectedFile(lut, size, Title(Stem)))
    /\ pc = "close" => files[Stem].lines = ExpectedFile(lut, size, Title(Stem))

\* the file of a preset is complete for a grid of the largest size
C2_Witness ==
    /\ pc = "close"
    /\ size = MaxSize
    /\ Stem = "ft_mood"
    /\ Len(files[Stem].lines) = HeaderLen + size * size * size

\* num / den rounded to the nearest millionth
Round6(num, den) == (2 * num * (10 ^ 6) + den) \div (2 * den)

\* C3 - Identity round trip: for every N >= 2, identity_lut(N) encoded by
\* write_cube with no operator applied carries, on the data line of grid
\* index (bi, gi, ri), the triple (ri/(N-1), gi/(N-1), bi/(N-1)) in the
\* order R G B, to the 6 decimals printed.
C3_IdentityRoundTrip ==
    (pc = "close" /\ Stem = "ft_identity" /\ size >= 2) =>
        \A i \in Index(size) :
            files[Stem].lines[HeaderLen + i[1] * size * size + i[2] * size + i[3] + 1]
                = << Round6(i[3], size - 1), Round6(i[2], size - 1), Round6(i[1], size - 1) >>

\* the identity grid of the largest size has been written out
C3_Witness ==
    /\ pc = "close"
    /\ Stem = "ft_identity"
    /\ size = MaxSize
    /\ Len(files[Stem].lines) = HeaderLen + size * size * size

\* C4 - Zero-parameter operators are the identity: on a grid with cells in
\* [0, 1], adjust_contrast, adjust_saturation, adjust_vibrance,
\* adjust_temperature, adjust_tint, adjust_highlights, adjust_shadows,
\* adjust_whites and adjust_blacks called with amount 0 return a grid equal
\* to their input at every cell and channel.
C4_ZeroIsIdentity ==
    (pc = "returned" /\ call.fn \in AmountFns /\ call.amount = 0) => ret = call.lut

\* adjust_vibrance(lut, 0) has returned for a coloured cell
C4_Witness ==
    /\ pc = "returned"
    /\ call.fn = "adjust_vibrance"
    /\ call.amount = 0
    /\ TheCell(call.lut) = << S, S \div 2, 0 >>
    /\ ret = call.lut

\* the luminance of the returned cell less that of the cell passed in
LumDrift == Abs(Luminance(TheCell(ret)) - Luminance(TheCell(call.lut)))

\* rounding tolerance of the fixed-point luminance: 10^-7
Tol == Dec(1, 7)

\* the final clip leaves the unclipped cell as it is
Unclipped(raw) == clip3(raw) = raw

\* the three channels of the cell get the same vibrance boost
SameBoost(c, t) ==
    /\ Boost(c[1], Luminance(c), t) = Boost(c[2], Luminance(c), t)
    /\ Boost(c[2], Luminance(c), t) = Boost(c[3], Luminance(c), t)

InWrap(c, rg) == Hue(c) >= rg[1] * H \/ Hue(c) <= rg[2] * H

\* the cell moved by lum_shift at the strength left by the saturation
\* weighting alone
FullShift(c, lum_shift) ==
    clip3(AddAll(c, MulS(MulS(clip(Saturation(c) * 3), lum_shift), Dec(15, 2))))

WrapCall == pc = "returned" /\ call.fn = "hsl_adjust" /\ call.range[1] >= call.range[2]

\* the parts of C6 kept by the amendment: a hue outside the range leaves the
\* cell unchanged, and a hue inside it is selected at full strength however
\* near the edge of the range it lies
C6_Selection ==
    /\ (WrapCall /\ ~InWrap(TheCell(call.lut), call.range)) => ret = call.lut
    /\ (WrapCall /\ InWrap(TheCell(call.lut), call.range)
          /\ call.sat_shift = 0 /\ call.hue_shift = 0)
       => TheCell(ret) = FullShift(TheCell(call.lut), call.lum_shift)

\* C6 (as stated) - Hue-range wraparound: hsl_adjust with h_min >= h_max
\* selects exactly the cells of hue >= h_min or <= h_max, at a hard 0/1
\* strength before the saturation weighting; a saturated cell of a hue in
\* the range (355, 5) is modified by a non-zero sat_shift or lum_shift and a
\* cell of a hue outside it (180) is returned unchanged.
C6_Original ==
    /\ C6_Selection
    /\ (WrapCall /\ InWrap(TheCell(call.lut), call.range)
          /\ Saturation(TheCell(call.lut)) > 0
          /\ (call.sat_shift # 0 \/ call.lum_shift # 0))
       => ret # call.lut

\* C6 (amended) - as stated, except that a cell of a hue in the range is
\* modified by a non-zero lum_shift, by a negative sat_shift, and by a
\* positive sat_shift only when it is not already fully saturated.
C6_Wraparound ==
    /\ C6_Selection
    /\ (WrapCall /\ InWrap(TheCell(call.lut), call.range)
          /\ Saturation(TheCell(call.lut)) > 0
          /\ \/ call.lum_shift # 0
             \/ call.sat_shift < 0
             \/ call.sat_shift > 0 /\ Saturation(TheCell(call.lut)) < S)
       => ret # call.lut

\* the cell of hue 355 at saturation 0.5 has been modified by a positive
\* sat_shift alone under the range (350, 10)
C6_Witness ==
    /\ WrapCall
    /\ call.range = << 350, 10 >>
    /\ TheCell(call.lut) = << S, S \div 2, (S \div 2) + (S \div 24) >>
    /\ Hue(TheCell(call.lut)) >= 350 * H
    /\ call.sat_shift > 0
    /\ call.lum_shift = 0
    /\ call.hue_shift = 0
    /\ ret # call.lut

CurveXs == { call.points[k][1] : k \in 1 .. Len(call.points) }
MinX == CHOOSE v \in CurveXs : \A w \in CurveXs : v <= w
MaxX == CHOOSE v \in CurveXs : \A w \in CurveXs : w <= v
\* the outputs of the points supplied with input v, in the order supplied
OutputsAt(v) == SelectSeq(call.points, LAMBDA q : q[1] = v)

\* C7 - Tone-curve boundary behaviour: whatever the order in which the
\* control points are supplied, apply_curve returns the output of the
\* smallest-input point for every x below that input, the output of the
\* largest-input point for every x above that input, and at x equal to the
\* input of a control point with no duplicate that point's output.  (Of
\* several points sharing the smallest input the first supplied decides, of
\* several sharing the largest the last supplied.)
C7_CurveBoundary ==
    (pc = "returned" /\ call.fn = "apply_curve") =>
        /\ call.x < MinX => ret = Head(OutputsAt(MinX))[2]
        /\ call.x > MaxX => ret = OutputsAt(MaxX)[Len(OutputsAt(MaxX))][2]
        /\ \A k \in 1 .. Len(call.points) :
               (call.points[k][1] = call.x /\ Len(OutputsAt(call.x)) = 1)
                   => ret = call.points[k][2]

\* apply_curve has returned for an x below every input of a list of points
\* supplied in descending order
C7_Witness ==
    /\ pc = "returned"
    /\ call.fn = "apply_curve"
    /\ Len(call.points) = MaxPoints
    /\ \A k \in 1 .. Len(call.points) - 1 : call.points[k][1] > call.points[k + 1][1]
    /\ call.x < MinX
    /\ ret = call.points[Len(call.points)][2]

\* the operator calls g[k], g[k+1], ... applied in turn to the grid l, each
\* grid computed in full before the next call (numpy arrays are eager)
RECURSIVE Run(_, _, _)
Run(g, l, k) ==
    IF k > Len(g) THEN l
    ELSE LET m == Apply(g[k], l)
         IN  IF m = l THEN Run(g, l, k + 1) ELSE Run(g, m, k + 1)

\* the grid of a preset generated alone
RunAlone(stem, n) == Run(Generator(stem), identity_lut(n), 1)

\* the file of a preset generated and written alone
FileAlone(stem, n) == ExpectedFile(RunAlone(stem, n), n, Title(stem))

\* C8 - Determinism and preset independence: in any sequence of preset
\* generations (any order, any repetition) the grid produced for a preset,
\* and the file written for it, are those produced by running that preset
\* alone; the files written earlier for the other presets stay as they were
\* written.
C8_Independence ==
    pc = "close" =>
        /\ lut = RunAlone(Stem, size)
        /\ files[Stem].lines = FileAlone(Stem, size)
        /\ \A j \in 1 .. idx - 1 :
               presets[j] # Stem => files[presets[j]].lines = FileAlone(presets[j], size)

\* a preset has been generated and written after a different one
C8_Witness ==
    /\ pc = "close"
    /\ idx = 2
    /\ presets[1] = "ft_mood"
    /\ presets[2] = "ft_vintage"
    /\ files["ft_mood"].exists
    /\ Len(files["ft_vintage"].lines) = HeaderLen + size * size * size

\* the file holds the header and all N^3 data lines
Complete(f) == Len(f.lines) = HeaderLen + size * size * size

\* C9 - Whole-or-nothing output per preset: when the run has ended, after a
\* failure during generation or writing too, the output file of each preset
\* either does not exist or holds the complete header and all N^3 data
\* lines, and after a failure in one preset no later preset's file was
\* written.
C9_WholeOrNothing ==
    pc \in { "failed", "done" } =>
        /\ \A s \in Stems : files[s].exists => Complete(files[s])
        /\ pc = "failed" => \A j \in (idx + 1) .. Len(presets) : ~files[presets[j]].exists

\* C10 - Invalid grid size fails fast: identity_lut(N) called with N < 2
\* (N = 1, N = 0) ends in an error and returns no grid to its caller; no
\* operator and no write_cube step is reached with a grid built from N < 2.
C10_InvalidSizeFails ==
    size < 2 => pc \in { "loop", "failed" }

====
